---- MODULE Spec2Model ----
(***************************************************************************)
(* Content reconciliation engine of the scraper: the movie torrent merge   *)
(* and upsert, the movie image cascade, the Trakt metadata fetch and the   *)
(* show episode merge.  Each part is a specification of its own over the   *)
(* shared variables; the parts a specification does not run stay idle.     *)
(***************************************************************************)
EXTENDS Integers, Sequences, FiniteSets, TLC

VARIABLES
  movieDb,      \* the stored movie document of the draft's _id, or None
  movieArg,     \* the movie as the caller handed it to _updateMovieInDb
  movie,        \* `m`, the same object as the function mutates it
  movieFound,   \* `found`, the result of Model.findOne
  moviePc,      \* position inside _updateMovieInDb
  movieRet,     \* value the promise of _updateMovieInDb resolved with
  movieLog,     \* TRUE once logger.error ran in the catch block
  images,       \* movie.images as the cascade of addImages passes it on
  imagePc,      \* the provider step addImages is at
  imageCalls,   \* the providers whose API was called, in order
  imageRet,     \* value the promise of addImages resolved with
  tmdbResp,     \* what tmdb.movie.images answers for this movie
  omdbResp,     \* what omdb.byId answers for this movie
  fanartResp,   \* what fanart.getMovieImages answers for this movie
  fetchKind,    \* whose getTraktInfo runs: MovieHelper's or ShowHelper's
  fetchPc,      \* position inside getTraktInfo
  fetchRet,     \* how the promise of getTraktInfo settled
  fetchLog,     \* TRUE once getTraktInfo called logger.error
  summaryResp,  \* what trakt.movies.summary / trakt.shows.summary answers
  watchingResp, \* what trakt.movies.watching / trakt.shows.watching answers
  tvImagesResp, \* what tmdb.tv.images answers for this show
  showArtResp,  \* what fanart.getShowImages answers for this show
  showDb,       \* the stored show document of the draft's imdb_id, or None
  showBefore,   \* the stored show document as it was when the cycle began
  showArg,      \* the show as the caller handed it to _updateEpisodes
  show,         \* `s`, the same object as the function mutates it
  showFound,    \* `found`, the result of Model.findOne
  showSaved,    \* `saved` of _updateNumSeasons
  showPc,       \* position inside _updateEpisodes / _updateNumSeasons
  showRet,      \* value the promise of _updateEpisodes resolved with
  showLog,      \* TRUE once logger.error ran in the catch block
  cycleArg,     \* the incoming torrent array as the first cycle received it
  cycleTorrents, \* the caller's incoming torrent array, as the calls leave it
  cycleFound,   \* the stored torrent array both calls merge against
  cycleFirst,   \* what the first _updateTorrents call returned
  cycleSecond,  \* what the second _updateTorrents call returned
  cyclePc,      \* how many calls were made
  addKeys,      \* Object.keys(episodes): the seasons addEpisodes was asked for
  addCatalog,   \* what tmdb.seasons.season answers for each of them
  addState,     \* per season: its _addSeason promise in flight or settled
  addSeasons,   \* show.seasons, by season number, in the order of the pushes
  addLogged,    \* the seasons whose _addSeason logged an error
  addMerges,    \* how many times _updateEpisodes was started
  addPc         \* position inside addEpisodes

movieVars == <<movieDb, movieArg, movie, movieFound, moviePc, movieRet, movieLog>>

imageVars ==
  <<images, imagePc, imageCalls, imageRet, tmdbResp, omdbResp, fanartResp>>

fetchVars ==
  <<fetchKind, fetchPc, fetchRet, fetchLog,
    summaryResp, watchingResp, tvImagesResp, showArtResp>>

showVars ==
  <<showDb, showBefore, showArg, show, showFound, showSaved, showPc, showRet, showLog>>

cycleVars == <<cycleArg, cycleTorrents, cycleFound, cycleFirst, cycleSecond, cyclePc>>

addVars ==
  <<addKeys, addCatalog, addState, addSeasons, addLogged, addMerges, addPc>>

vars == <<movieVars, imageVars, fetchVars, showVars, cycleVars, addVars>>

\* What each part leaves alone.
notMovie == <<imageVars, fetchVars, showVars, cycleVars, addVars>>
notImage == <<movieVars, fetchVars, showVars, cycleVars, addVars>>
notFetch == <<movieVars, imageVars, showVars, cycleVars, addVars>>
notShow == <<movieVars, imageVars, fetchVars, cycleVars, addVars, showBefore>>
notCycle == <<movieVars, imageVars, fetchVars, showVars, addVars>>
notAdd == <<movieVars, imageVars, fetchVars, showVars, cycleVars>>

\* JS undefined / null where a document or an object is expected: a missing
\* document, no match, no return value.
None == [undefined |-> TRUE]
\* A promise that has not settled yet, and one that was rejected.
Pending == [pending |-> TRUE]
Rejected == [rejected |-> TRUE]

\* The image cascade is not running.
ImageIdle ==
  /\ images = None
  /\ imagePc = "idle"
  /\ imageCalls = <<>>
  /\ imageRet = Pending
  /\ tmdbResp = None
  /\ omdbResp = None
  /\ fanartResp = None

\* The movie upsert is not running.
MovieIdle ==
  /\ movieDb = None
  /\ movieArg = None
  /\ movie = None
  /\ movieFound = None
  /\ moviePc = "idle"
  /\ movieRet = Pending
  /\ movieLog = FALSE

\* The metadata fetch is not running.
FetchIdle ==
  /\ fetchKind = "none"
  /\ fetchPc = "idle"
  /\ fetchRet = Pending
  /\ fetchLog = FALSE
  /\ summaryResp = None
  /\ watchingResp = None
  /\ tvImagesResp = None
  /\ showArtResp = None

\* The episode merge is not running.
ShowIdle ==
  /\ showDb = None
  /\ showBefore = None
  /\ showArg = None
  /\ show = None
  /\ showFound = None
  /\ showSaved = None
  /\ showPc = "idle"
  /\ showRet = Pending
  /\ showLog = FALSE

\* No repeated torrent merge is running.
CycleIdle ==
  /\ cycleArg = None
  /\ cycleTorrents = None
  /\ cycleFound = None
  /\ cycleFirst = None
  /\ cycleSecond = None
  /\ cyclePc = "idle"

\* addEpisodes is not running.
AddIdle ==
  /\ addKeys = {}
  /\ addCatalog = <<>>
  /\ addState = <<>>
  /\ addSeasons = <<>>
  /\ addLogged = {}
  /\ addMerges = 0
  /\ addPc = "idle"

-----------------------------------------------------------------------------
(* Movie torrents: MovieHelper._updateTorrents                             *)

Qualities == {"720p", "1080p"}
Languages == {"en", "nl"}
\* Seed counts an entry carries: enough for less, equal and more.
SeedCounts == {10, 50}
\* Longest torrent array handed in or stored.
MaxTorrents == 2

TorrentEntries == [quality : Qualities, language : Languages, seeds : SeedCounts]

SameKey(a, b) == a.quality = b.quality /\ a.language = b.language

UniqueKeys(s) == \A i, j \in 1..Len(s) : i # j => ~SameKey(s[i], s[j])

\* Torrent arrays with at most one entry per (quality, language).
TorrentLists ==
  {s \in UNION {[1..n -> TorrentEntries] : n \in 0..MaxTorrents} : UniqueKeys(s)}

\* The incoming arrays are drawn in one order per set of entries (the merge
\* keys every entry, so the order of the incoming array only orders the
\* result); the stored arrays are drawn in every order.
KeyRank(t) ==
  (IF t.quality = "720p" THEN 0 ELSE 2) + (IF t.language = "en" THEN 0 ELSE 1)

IncomingLists ==
  {s \in TorrentLists :
     \A i, j \in 1..Len(s) : i < j => KeyRank(s[i]) < KeyRank(s[j])}

\* Array.prototype.find with the predicate of _updateTorrents: the first
\* entry of `s` with the quality and the language of `torrent`, else None.
FindMatch(s, torrent) ==
  IF \E i \in 1..Len(s) : SameKey(s[i], torrent)
  THEN s[CHOOSE i \in 1..Len(s) :
           /\ SameKey(s[i], torrent)
           /\ \A j \in 1..(i - 1) : ~SameKey(s[j], torrent)]
  ELSE None

\* The filter of "Remove the lesser one": keeps the entries that differ from
\* `torrent` in quality AND in language.
KeepOthers(t, torrent) ==
  t.quality # torrent.quality /\ t.language # torrent.language

RECURSIVE FilterOthers(_, _)
FilterOthers(s, torrent) ==
  IF s = <<>> THEN <<>>
  ELSE IF KeepOthers(Head(s), torrent)
       THEN <<Head(s)>> \o FilterOthers(Tail(s), torrent)
       ELSE FilterOthers(Tail(s), torrent)

\* The iteration with the replacement made also on equal seeds.
MergeStepOnEqual(st, torrent) ==
  LET match == FindMatch(st.torrents, torrent) IN
  IF match = None
  THEN [torrents    |-> IF st.aliased THEN Append(st.torrents, torrent)
                        ELSE st.torrents,
        newTorrents |-> Append(st.newTorrents, torrent),
        aliased     |-> st.aliased]
  ELSE IF match.seeds >= torrent.seeds
  THEN [torrents    |-> st.torrents,
        newTorrents |-> Append(FilterOthers(st.newTorrents, torrent), match),
        aliased     |-> FALSE]
  ELSE st

\* One iteration of foundTorrents.forEach.  st.torrents is the array the
\* caller passed, st.newTorrents the array being built, st.aliased whether
\* both names still denote the same array (newTorrents = torrents until the
\* first filter() allocates a new one), so that a push is seen by find.
MergeStep(st, torrent) ==
  LET match == FindMatch(st.torrents, torrent) IN
  IF match = None
  THEN [torrents    |-> IF st.aliased THEN Append(st.torrents, torrent)
                        ELSE st.torrents,
        newTorrents |-> Append(st.newTorrents, torrent),
        aliased     |-> st.aliased]
  ELSE IF match.seeds > torrent.seeds
  THEN [torrents    |-> st.torrents,
        newTorrents |-> Append(FilterOthers(st.newTorrents, torrent), match),
        aliased     |-> FALSE]
  ELSE st

RECURSIVE MergeLoop(_, _)
MergeLoop(st, foundTorrents) ==
  IF foundTorrents = <<>> THEN st
  ELSE MergeLoop(MergeStep(st, Head(foundTorrents)), Tail(foundTorrents))

\* _updateTorrents(torrents, foundTorrents): the returned array, and the
\* caller's `torrents` array as the call leaves it.
UpdateTorrentsRun(torrents, foundTorrents) ==
  MergeLoop([torrents |-> torrents, newTorrents |-> torrents, aliased |-> TRUE],
            foundTorrents)

UpdateTorrents(torrents, foundTorrents) ==
  UpdateTorrentsRun(torrents, foundTorrents).newTorrents

-----------------------------------------------------------------------------
(* Movie upsert: MovieHelper._updateMovieInDb                              *)

\* The attributes _updateMovieInDb keeps from the stored document.
KeptFields ==
  {"createdAt", "bookmarked", "bookmarkedOn", "watched",
   "downloaded", "downloading", "downloadedOn"}

\* The two values every kept attribute takes in this model: as a freshly
\* scraped draft carries it, and as a user of the catalog left it.
Untouched == [f \in KeptFields |-> "draft"]
Touched   == [f \in KeptFields |-> "user"]
KeptValues == {Untouched, Touched}

MovieDocs == [torrents : TorrentLists, kept : KeptValues]
MovieDrafts == [torrents : IncomingLists, kept : KeptValues]

\* "Keep old attributes that could change": one assignment per attribute.
KeepOldAttributes(m, found) ==
  [m EXCEPT !.kept = [f \in KeptFields |-> found.kept[f]]]

\* The body of `if (found)` up to the write.
MergeIntoFound(m, found) ==
  KeepOldAttributes(
    [m EXCEPT !.torrents = UpdateTorrents(m.torrents, found.torrents)], found)

MovieInit ==
  /\ ImageIdle
  /\ FetchIdle
  /\ ShowIdle
  /\ CycleIdle
  /\ AddIdle
  /\ movieDb \in MovieDocs \cup {None}
  /\ movieArg \in MovieDrafts
  /\ movie = movieArg
  /\ movieFound = None
  /\ moviePc = "findOne"
  /\ movieRet = Pending
  /\ movieLog = FALSE

\* await this.Model.findOne({ _id: m._id })
MovieFindOne ==
  /\ moviePc = "findOne"
  /\ movieFound' = movieDb
  /\ moviePc' = IF movieDb # None THEN "update" ELSE "save"
  /\ UNCHANGED <<movieDb, movieArg, movie, movieRet, movieLog, notMovie>>

\* if (found): merge the torrents, keep the old attributes, findOneAndUpdate.
MovieUpdate ==
  /\ moviePc = "update"
  /\ movie' = MergeIntoFound(movie, movieFound)
  /\ movieDb' = movie'
  /\ movieRet' = movie'
  /\ moviePc' = "done"
  /\ UNCHANGED <<movieArg, movieFound, movieLog, notMovie>>

\* new this.Model(m).save()
MovieSave ==
  /\ moviePc = "save"
  /\ movieDb' = movie
  /\ movieRet' = movie
  /\ moviePc' = "done"
  /\ UNCHANGED <<movieArg, movie, movieFound, movieLog, notMovie>>

\* A store call rejects: the catch block logs and the function returns
\* nothing.  On the update path the draft was already merged in place.
MovieStoreError ==
  /\ moviePc \in {"findOne", "update", "save"}
  /\ movie' = IF moviePc = "update" THEN MergeIntoFound(movie, movieFound)
              ELSE movie
  /\ movieLog' = TRUE
  /\ movieRet' = None
  /\ moviePc' = "done"
  /\ UNCHANGED <<movieDb, movieArg, movieFound, notMovie>>

MovieNext == MovieFindOne \/ MovieUpdate \/ MovieSave \/ MovieStoreError

SpecMovie == MovieInit /\ [][MovieNext]_vars

\* The entries of array `s`, and those among them with the key of `t`.
Entries(s) == {s[i] : i \in 1..Len(s)}
WithKey(s, t) == {x \in Entries(s) : SameKey(x, t)}

\* The merge ran: the stored document was found and the draft merged into it.
MovieMerged == moviePc = "done" /\ movieFound # None /\ movieRet # None

\* C1: seed tie-break of the movie torrent merge.  For every stored entry e
\* and incoming entry m with the same (quality, language), the merged result
\* holds e for that key when e.seeds > m.seeds, and m otherwise.
C1_SeedTieBreak ==
  MovieMerged =>
    \A e \in Entries(movieFound.torrents) :
      \A m \in WithKey(movieArg.torrents, e) :
        WithKey(movie.torrents, e) = IF e.seeds > m.seeds THEN {e} ELSE {m}

\* C2: no loss in the movie torrent merge.  Every stored entry whose
\* (quality, language) no incoming entry shares is in the merged result.
C2_NoLoss ==
  MovieMerged =>
    \A e \in Entries(movieFound.torrents) :
      WithKey(movieArg.torrents, e) = {} => e \in Entries(movie.torrents)

-----------------------------------------------------------------------------
(* Movie image cascade: MovieHelper.addImages                              *)

ImageFields == {"banner", "backdrop", "poster", "logo"}

\* AbstractHelper.DefaultImageSizes, the placeholder object of an image that
\* is not resolved; Absent is a field that is null or not there at all.
Holder == "DefaultImageSizes"
Absent == "null"

IsPlaceholder(v) == v \in {Holder, Absent}

\* JS truthiness of an image value: the placeholder is an object, and an
\* object is truthy; only a null or missing field is falsy.
Truthy(v) == v # Absent

\* movie.images as the two getTraktInfo of the sources build it: the three
\* placeholders without a logo, and three nulls without a logo.
DraftImages ==
  {[banner |-> Holder, backdrop |-> Holder, poster |-> Holder, logo |-> Absent],
   [banner |-> Absent, backdrop |-> Absent, poster |-> Absent, logo |-> Absent]}

\* iso_639_1 of the entries of a TMDB image list: 'en', null, another tag.
IsoTags == {"en", "untagged", "fr"}
TmdbLists == {<<>>} \cup {<<t>> : t \in IsoTags}

TmdbResponses ==
  [status : {"ok"}, posters : TmdbLists, backdrops : TmdbLists]
    \cup [status : {"404", "error"}, posters : {<<>>}, backdrops : {<<>>}]

\* OMDB answers with a Poster or without; a backdrop it may send is a field
\* the code never reads.
OmdbResponses ==
  [status : {"ok"}, Poster : BOOLEAN, Backdrop : BOOLEAN]
    \cup [status : {"404", "401", "error"}, Poster : {FALSE}, Backdrop : {FALSE}]

\* Fanart answers with a list per artwork kind: not there, empty, or with one
\* image.
FanartResponses ==
  [status : {"ok"},
   moviebanner : {"absent", "one"},
   moviebackground : {"absent", "empty", "one"},
   hdmovieclearart : {"absent", "one"},
   movieposter : {"absent", "one"},
   movielogo : {"absent", "empty", "one"},
   hdmovielogo : {"absent", "one"}]
    \cup [status : {"404", "error"},
          moviebanner : {"absent"}, moviebackground : {"absent"},
          hdmovieclearart : {"absent"}, movieposter : {"absent"},
          movielogo : {"absent"}, hdmovielogo : {"absent"}]

\* list.filter(x => x.iso_639_1 === 'en' || x.iso_639_1 === null).shift():
\* the first such entry (an object), or undefined.
RECURSIVE FirstEnglish(_)
FirstEnglish(list) ==
  IF list = <<>> THEN Absent
  ELSE IF Head(list) \in {"en", "untagged"} THEN "entry"
  ELSE FirstEnglish(Tail(list))

\* checkImages(item): rejects with the item while an image is a placeholder.
CheckImages(imgs) ==
  IF \E f \in ImageFields : IsPlaceholder(imgs[f]) THEN "rejected"
  ELSE "resolved"

\* The images object _addTmdbImages builds in its then().
TmdbImages(i) ==
  [banner   |-> Holder,
   backdrop |-> IF Truthy(FirstEnglish(i.backdrops)) THEN "tmdbBackdrop"
                ELSE Holder,
   poster   |-> IF Truthy(FirstEnglish(i.posters)) THEN "tmdbPoster"
                ELSE Holder,
   logo     |-> Holder]

\* The images object _addOmdbImages builds in its then().
OmdbImages(imgs, i) ==
  [banner   |-> imgs.banner,
   backdrop |-> imgs.backdrop,
   poster   |-> IF ~Truthy(imgs.poster) /\ i.Poster THEN "omdbPoster"
                ELSE imgs.poster,
   logo     |-> imgs.logo]

\* x.shift() of a Fanart list that is there: its image, or undefined.
Shift(list, name) == IF list = "one" THEN name ELSE Absent

\* const banner / backdrop / poster / logo of _addFanartImages.
FanartBanner(imgs, i) ==
  IF ~Truthy(imgs.banner) /\ i.moviebanner # "absent"
  THEN Shift(i.moviebanner, "moviebanner")
  ELSE Absent

FanartBackdrop(imgs, i) ==
  IF ~Truthy(imgs.backdrop) /\ i.moviebackground # "absent"
  THEN Shift(i.moviebackground, "moviebackground")
  ELSE IF ~Truthy(imgs.backdrop) /\ i.hdmovieclearart # "absent"
  THEN Shift(i.hdmovieclearart, "hdmovieclearart")
  ELSE Absent

\* The poster taken from Fanart whatever the movie already has.
FanartPosterUnguarded(imgs, i) ==
  IF i.movieposter # "absent" THEN Shift(i.movieposter, "movieposter")
  ELSE Absent

FanartPoster(imgs, i) ==
  IF ~Truthy(imgs.poster) /\ i.movieposter # "absent"
  THEN Shift(i.movieposter, "movieposter")
  ELSE Absent

FanartLogo(imgs, i) ==
  IF ~Truthy(imgs.logo) /\ i.movielogo # "absent"
  THEN Shift(i.movielogo, "movielogo")
  ELSE IF ~Truthy(imgs.logo) /\ i.hdmovielogo # "absent"
  THEN Shift(i.hdmovielogo, "hdmovielogo")
  ELSE Absent

\* value ? { full: value.url, ... } : movie.images.field
OrKeep(value, old) == IF Truthy(value) THEN value ELSE old

\* The images object _addFanartImages builds in its then().
FanartImages(imgs, i) ==
  [banner   |-> OrKeep(FanartBanner(imgs, i), imgs.banner),
   backdrop |-> OrKeep(FanartBackdrop(imgs, i), imgs.backdrop),
   poster   |-> OrKeep(FanartPoster(imgs, i), imgs.poster),
   logo     |-> OrKeep(FanartLogo(imgs, i), imgs.logo)]

\* What a step of the chain hands on: the movie's images, and whether its
\* promise resolved (addImages ends) or rejected (the next catch runs).
\* _addTmdbImages: a failed checkImages passes through the catch, which
\* re-rejects it (err.tmdbId is set); a failed call rejects with the movie.
TmdbStep(imgs, i) ==
  IF i.status = "ok"
  THEN [images |-> TmdbImages(i), outcome |-> CheckImages(TmdbImages(i))]
  ELSE [images |-> imgs, outcome |-> "rejected"]

\* _addOmdbImages: `if (movie.images.poster) return Promise.reject(movie)`
\* comes before the call.
OmdbStep(imgs, i) ==
  IF Truthy(imgs.poster) THEN [images |-> imgs, outcome |-> "rejected"]
  ELSE IF i.status = "ok"
  THEN [images |-> OmdbImages(imgs, i), outcome |-> CheckImages(OmdbImages(imgs, i))]
  ELSE [images |-> imgs, outcome |-> "rejected"]

FanartStep(imgs, i) ==
  IF i.status = "ok"
  THEN [images |-> FanartImages(imgs, i),
        outcome |-> CheckImages(FanartImages(imgs, i))]
  ELSE [images |-> imgs, outcome |-> "rejected"]

\* addImages: tmdb, .catch(omdb), .catch(fanart), .catch(movie => movie).
AddImages(imgs, t, o, fa) ==
  LET a == TmdbStep(imgs, t) IN
  IF a.outcome = "resolved" THEN a.images
  ELSE LET b == OmdbStep(a.images, o) IN
       IF b.outcome = "resolved" THEN b.images
       ELSE FanartStep(b.images, fa).images

ImageInit ==
  /\ MovieIdle
  /\ FetchIdle
  /\ ShowIdle
  /\ CycleIdle
  /\ AddIdle
  /\ images \in DraftImages
  /\ imagePc = "tmdb"
  /\ imageCalls = <<>>
  /\ imageRet = Pending
  /\ tmdbResp \in TmdbResponses
  /\ omdbResp \in OmdbResponses
  /\ fanartResp \in FanartResponses

\* The promise of one step settles with `r`; `next` is the catch after it.
Settle(r, next) ==
  /\ images' = r.images
  /\ imagePc' = IF r.outcome = "resolved" THEN "done" ELSE next
  /\ imageRet' = IF r.outcome = "resolved" \/ next = "done" THEN r.images
                 ELSE imageRet

ImageTmdb ==
  /\ imagePc = "tmdb"
  /\ tmdbResp.status = "ok"
  /\ imageCalls' = Append(imageCalls, "tmdb")
  /\ Settle(TmdbStep(images, tmdbResp), "omdb")
  /\ UNCHANGED <<tmdbResp, omdbResp, fanartResp, notImage>>

ImageTmdbError ==
  /\ imagePc = "tmdb"
  /\ tmdbResp.status # "ok"
  /\ imageCalls' = Append(imageCalls, "tmdb")
  /\ Settle(TmdbStep(images, tmdbResp), "omdb")
  /\ UNCHANGED <<tmdbResp, omdbResp, fanartResp, notImage>>

ImageOmdbSkip ==
  /\ imagePc = "omdb"
  /\ Truthy(images.poster)
  /\ Settle(OmdbStep(images, omdbResp), "fanart")
  /\ UNCHANGED <<imageCalls, tmdbResp, omdbResp, fanartResp, notImage>>

ImageOmdb ==
  /\ imagePc = "omdb"
  /\ ~Truthy(images.poster)
  /\ omdbResp.status = "ok"
  /\ imageCalls' = Append(imageCalls, "omdb")
  /\ Settle(OmdbStep(images, omdbResp), "fanart")
  /\ UNCHANGED <<tmdbResp, omdbResp, fanartResp, notImage>>

ImageOmdbError ==
  /\ imagePc = "omdb"
  /\ ~Truthy(images.poster)
  /\ omdbResp.status # "ok"
  /\ imageCalls' = Append(imageCalls, "omdb")
  /\ Settle(OmdbStep(images, omdbResp), "fanart")
  /\ UNCHANGED <<tmdbResp, omdbResp, fanartResp, notImage>>

ImageFanart ==
  /\ imagePc = "fanart"
  /\ fanartResp.status = "ok"
  /\ imageCalls' = Append(imageCalls, "fanart")
  /\ Settle(FanartStep(images, fanartResp), "done")
  /\ UNCHANGED <<tmdbResp, omdbResp, fanartResp, notImage>>

ImageFanartError ==
  /\ imagePc = "fanart"
  /\ fanartResp.status # "ok"
  /\ imageCalls' = Append(imageCalls, "fanart")
  /\ Settle(FanartStep(images, fanartResp), "done")
  /\ UNCHANGED <<tmdbResp, omdbResp, fanartResp, notImage>>

ImageNext ==
  \/ ImageTmdb \/ ImageTmdbError
  \/ ImageOmdbSkip \/ ImageOmdb \/ ImageOmdbError
  \/ ImageFanart \/ ImageFanartError

SpecImages == ImageInit /\ [][ImageNext]_vars

\* C3: image precedence.  Once an image field holds a value that is not the
\* placeholder, no later step of the cascade changes it.
C3_Precedence ==
  [][\A f \in ImageFields :
       ~IsPlaceholder(images[f]) => images'[f] = images[f]]_vars

\* C3 happens: TMDB resolved the poster, Fanart was asked afterwards and had
\* a poster of its own, and the poster is still TMDB's.
C3_Witness ==
  /\ imagePc = "done"
  /\ images.poster = "tmdbPoster"
  /\ imageCalls = <<"tmdb", "fanart">>
  /\ fanartResp.status = "ok" /\ fanartResp.movieposter = "one"

\* What each provider has for a field, by what it answers.
TmdbGives(f) ==
  /\ tmdbResp.status = "ok"
  /\ \/ f = "poster" /\ Truthy(FirstEnglish(tmdbResp.posters))
     \/ f = "backdrop" /\ Truthy(FirstEnglish(tmdbResp.backdrops))

OmdbGives(f) ==
  /\ omdbResp.status = "ok"
  /\ \/ f = "poster" /\ omdbResp.Poster
     \/ f = "backdrop" /\ omdbResp.Backdrop

FanartGives(f) ==
  /\ fanartResp.status = "ok"
  /\ \/ f = "banner" /\ fanartResp.moviebanner = "one"
     \/ f = "backdrop" /\ "one" \in {fanartResp.moviebackground,
                                      fanartResp.hdmovieclearart}
     \/ f = "poster" /\ fanartResp.movieposter = "one"
     \/ f = "logo" /\ "one" \in {fanartResp.movielogo, fanartResp.hdmovielogo}

OmdbValues == {"omdbPoster", "omdbBackdrop"}
FanartValues ==
  {"moviebanner", "moviebackground", "hdmovieclearart", "movieposter",
   "movielogo", "hdmovielogo"}

\* C4: a field the primary provider (TMDB) left at the placeholder holds, at
\* the end of the cascade, the value of the next provider in order (OMDB,
\* then Fanart) that has a usable value for it.
C4_NextProviderFills ==
  imagePc = "done" =>
    \A f \in ImageFields :
      ~TmdbGives(f) =>
        IF OmdbGives(f) THEN images[f] \in OmdbValues
        ELSE FanartGives(f) => images[f] \in FanartValues

-----------------------------------------------------------------------------
(* Metadata fetch: MovieHelper.getTraktInfo and ShowHelper.getTraktInfo    *)

IdNames == {"imdb", "tmdb", "tvdb"}

\* The ids the `if` of each getTraktInfo asks for.
RequiredIds(kind) ==
  IF kind = "movie" THEN {"imdb", "tmdb"} ELSE {"imdb", "tmdb", "tvdb"}

\* trakt summary: a rejection (404 or another error), no record, or a record
\* whose ids object holds some of the cross-reference ids.
SummaryResponses ==
  [status : {"404", "error"}]
    \cup [status : {"null"}]
    \cup [status : {"ok"}, ids : SUBSET IdNames]

\* Most watchers the watching call lists.
MaxWatching == 2

\* trakt watching: a rejection, nothing, or the list of watchers.
WatchingResponses ==
  [status : {"error"}] \cup [status : {"null"}]
    \cup [status : {"ok"}, length : 0..MaxWatching]

TvImagesResponses ==
  [status : {"ok"}, posters : TmdbLists, backdrops : TmdbLists]
    \cup [status : {"404", "error"}, posters : {<<>>}, backdrops : {<<>>}]

ShowArtResponses ==
  [status : {"ok"},
   showbackground : {"absent", "empty", "one"},
   tvposter : {"absent", "one"},
   hdtvlogo : {"absent", "one"},
   tvthumb : {"absent", "one"}]
    \cup [status : {"404", "error"},
          showbackground : {"absent"}, tvposter : {"absent"},
          hdtvlogo : {"absent"}, tvthumb : {"absent"}]

\* traktWatchers ? traktWatchers.length : 0
Watching(w) == IF w.status = "ok" THEN w.length ELSE 0

\* traktX && ids.imdb && ids.tmdb (&& ids.tvdb)
HasRequiredIds(kind, summary) ==
  summary.status = "ok" /\ RequiredIds(kind) \subseteq summary.ids

\* _getTmdbImages resolves: the call answers and poster.file_path and
\* backdrop.file_path can be read, i.e. both filtered lists have an entry.
TvImagesResolve(i) ==
  /\ i.status = "ok"
  /\ Truthy(FirstEnglish(i.posters))
  /\ Truthy(FirstEnglish(i.backdrops))

\* _getFanartImages resolves: the call answers and every list[0].url can be
\* read.
ShowArtResolve(i) ==
  /\ i.status = "ok"
  /\ i.showbackground = "one" /\ i.tvposter = "one"
  /\ i.hdtvlogo = "one" /\ i.tvthumb = "one"

\* getImages: both awaits resolve, or the first that throws rejects it.
GetImagesResolve(tv, art) == TvImagesResolve(tv) /\ ShowArtResolve(art)

\* The images getImages returns: Fanart's, with TMDB's backdrop and poster.
GetImages(tv, art) ==
  [backdrop |-> "tmdbBackdrop", poster |-> "tmdbPoster",
   logo |-> "hdtvlogo", thumb |-> "tvthumb"]

FetchInit ==
  /\ MovieIdle
  /\ ImageIdle
  /\ ShowIdle
  /\ CycleIdle
  /\ AddIdle
  /\ fetchKind \in {"movie", "show"}
  /\ fetchPc = "summary"
  /\ fetchRet = Pending
  /\ fetchLog = FALSE
  /\ summaryResp \in SummaryResponses
  /\ watchingResp \in WatchingResponses
  /\ tvImagesResp \in IF fetchKind = "show" THEN TvImagesResponses ELSE {None}
  /\ showArtResp \in IF fetchKind = "show" THEN ShowArtResponses ELSE {None}

fetchResps == <<fetchKind, summaryResp, watchingResp, tvImagesResp, showArtResp>>

\* catch (err): ShowHelper logs and rejects with err, MovieHelper rejects
\* with a new Error and logs nothing.
FetchCatch ==
  /\ fetchRet' = Rejected
  /\ fetchLog' = (fetchKind = "show")
  /\ fetchPc' = "done"

\* await trakt.x.summary(...) resolves.
FetchSummary ==
  /\ fetchPc = "summary"
  /\ summaryResp.status \in {"ok", "null"}
  /\ fetchPc' = "watching"
  /\ UNCHANGED <<fetchRet, fetchLog, fetchResps, notFetch>>

FetchSummaryError ==
  /\ fetchPc = "summary"
  /\ summaryResp.status \in {"404", "error"}
  /\ FetchCatch
  /\ UNCHANGED <<fetchResps, notFetch>>

\* await trakt.x.watching(...) resolves.
FetchWatching ==
  /\ fetchPc = "watching"
  /\ watchingResp.status # "error"
  /\ fetchPc' = "ids"
  /\ UNCHANGED <<fetchRet, fetchLog, fetchResps, notFetch>>

\* await trakt.x.watching(...) rejects inside the try.
FetchWatchingError ==
  /\ fetchPc = "watching"
  /\ watchingResp.status = "error"
  /\ FetchCatch
  /\ UNCHANGED <<fetchResps, notFetch>>

\* ShowHelper: `const { imdb, tmdb, tvdb } = traktShow.ids` of no record
\* throws a TypeError inside the try.
FetchShowNoRecord ==
  /\ fetchPc = "ids"
  /\ fetchKind = "show"
  /\ summaryResp.status = "null"
  /\ FetchCatch
  /\ UNCHANGED <<fetchResps, notFetch>>

\* The `if` fails and the function ends without a return: the promise
\* resolves with undefined.
FetchNothing ==
  /\ fetchPc = "ids"
  /\ fetchKind = "show" => summaryResp.status = "ok"
  /\ ~HasRequiredIds(fetchKind, summaryResp)
  /\ fetchRet' = None
  /\ fetchPc' = "done"
  /\ UNCHANGED <<fetchLog, fetchResps, notFetch>>

\* MovieHelper: return this.addImages({...}), whatever the image providers
\* answer.
FetchMovie ==
  /\ fetchPc = "ids"
  /\ fetchKind = "movie"
  /\ HasRequiredIds(fetchKind, summaryResp)
  /\ \E t \in TmdbResponses, o \in OmdbResponses, fa \in FanartResponses :
       fetchRet' =
         [watching |-> Watching(watchingResp),
          images |-> AddImages([banner |-> Holder, backdrop |-> Holder,
                                poster |-> Holder, logo |-> Absent], t, o, fa)]
  /\ fetchPc' = "done"
  /\ UNCHANGED <<fetchLog, fetchResps, notFetch>>

\* ShowHelper: the object literal with `images: await this.getImages(...)`.
FetchShow ==
  /\ fetchPc = "ids"
  /\ fetchKind = "show"
  /\ HasRequiredIds(fetchKind, summaryResp)
  /\ GetImagesResolve(tvImagesResp, showArtResp)
  /\ fetchRet' = [watching |-> Watching(watchingResp),
                  images |-> GetImages(tvImagesResp, showArtResp)]
  /\ fetchPc' = "done"
  /\ UNCHANGED <<fetchLog, fetchResps, notFetch>>

\* ShowHelper: getImages rejects inside the try.
FetchShowImagesError ==
  /\ fetchPc = "ids"
  /\ fetchKind = "show"
  /\ HasRequiredIds(fetchKind, summaryResp)
  /\ ~GetImagesResolve(tvImagesResp, showArtResp)
  /\ FetchCatch
  /\ UNCHANGED <<fetchResps, notFetch>>

FetchNext ==
  \/ FetchSummary \/ FetchSummaryError
  \/ FetchWatching \/ FetchWatchingError
  \/ FetchShowNoRecord \/ FetchNothing
  \/ FetchMovie \/ FetchShow \/ FetchShowImagesError

SpecFetch == FetchInit /\ [][FetchNext]_vars

\* C5: image resolution never fails.  When the summary has the ids and both
\* Trakt calls answer, the fetch ends with a record whatever the image
\* providers answer.
C5_ImagesNeverFail ==
  (/\ fetchPc = "done"
   /\ HasRequiredIds(fetchKind, summaryResp)
   /\ watchingResp.status # "error")
    => fetchRet \notin {Rejected, None}

\* C6: the fetch is rejected whenever the provider returns no record or a
\* summary without one of the cross-reference ids; it never resolves without
\* a record.
C6_MissingIdsRejected ==
  (/\ fetchPc = "done"
   /\ summaryResp.status \in {"ok", "null"}
   /\ ~HasRequiredIds(fetchKind, summaryResp))
    => fetchRet = Rejected

-----------------------------------------------------------------------------
(* Show episode merge: ShowHelper._updateEpisodes, _updateEpisode and      *)
(* _updateNumSeasons                                                       *)

ShowQualities == {"480p", "720p", "1080p"}

\* Highest season number, and most episodes a show (stored or incoming)
\* carries.
MaxSeason == 2
MaxEpisodes == 2
EpisodeNumbers == {1, 2}

Torrent(url, seeds) == [url |-> url, seeds |-> seeds]

\* The torrents object of an episode: per quality a torrent or nothing.  All
\* episodes of one side (stored, incoming) carry the same object; the three
\* drawn here pair up to every case of _updateEpisode: only stored, only
\* incoming, more seeds on either side, the same url.
TorrentProfiles ==
  {("480p" :> None @@ "720p" :> Torrent("a", 10) @@ "1080p" :> Torrent("b", 50)),
   ("480p" :> Torrent("c", 10) @@ "720p" :> Torrent("d", 50)
      @@ "1080p" :> Torrent("b", 10)),
   ("480p" :> Torrent("c", 50) @@ "720p" :> None @@ "1080p" :> None)}

EpisodeKeys == (1..MaxSeason) \X EpisodeNumbers

Episode(key, torrents) ==
  [season |-> key[1], episode |-> key[2],
   first_aired |-> key[1] * 10 + key[2], torrents |-> torrents]

\* Episodes are drawn in the order of their (season, episode).
KeyBefore(a, b) == a[1] < b[1] \/ (a[1] = b[1] /\ a[2] < b[2])

KeyLists ==
  {k \in UNION {[1..n -> EpisodeKeys] : n \in 0..MaxEpisodes} :
     \A i, j \in 1..Len(k) : i < j => KeyBefore(k[i], k[j])}

EpisodeLists ==
  {[i \in 1..Len(k) |-> Episode(k[i], t)] : k \in KeyLists, t \in TorrentProfiles}

\* Model.distinct('episodes.season', { _id }): the distinct season numbers
\* of the stored document's episodes.
DistinctSeasons(doc) == {doc.episodes[i].season : i \in 1..Len(doc.episodes)}

\* The draft has no latest_episode (getTraktInfo sets none).
Undefined == [defined |-> FALSE, at |-> 0]

\* e.first_aired > s.latest_episode: false against undefined.
AiredLater(first_aired, latest) == latest.defined /\ first_aired > latest.at

\* A stored show: left by an earlier cycle, its num_seasons counted.
ShowDocs ==
  {[episodes |-> eps, num_seasons |-> Cardinality(DistinctSeasons([episodes |-> eps])),
    latest_episode |-> Undefined, kept |-> k] :
     eps \in EpisodeLists, k \in KeptValues}

\* The show handed to _updateEpisodes: its own episodes, no season count
\* yet, and the values new Model(show) carries for the kept attributes.
ShowDrafts ==
  [episodes : EpisodeLists, num_seasons : {0}, latest_episode : {Undefined},
   kept : KeptValues]

SameEpisode(s, e) == s.season = e.season /\ s.episode = e.episode

\* s.episodes.find(s => s.season === e.season && s.episode === e.episode)
FindEpisode(episodes, e) ==
  IF \E i \in 1..Len(episodes) : SameEpisode(episodes[i], e)
  THEN episodes[CHOOSE i \in 1..Len(episodes) :
                  /\ SameEpisode(episodes[i], e)
                  /\ \A j \in 1..(i - 1) : ~SameEpisode(episodes[j], e)]
  ELSE None

\* show.episodes.indexOf(matching)
IndexOf(episodes, matching) ==
  CHOOSE i \in 1..Len(episodes) :
    episodes[i] = matching /\ \A j \in 1..(i - 1) : episodes[j] # matching

\* The value the local `matchingTorrents` of _updateEpisode ends with.
MatchingTorrents(matching, found, quality) ==
  LET foundTorrents == found.torrents[quality]
      matchingTorrents == matching.torrents[quality]
  IN IF foundTorrents # None /\ matchingTorrents # None
     THEN IF \/ foundTorrents.seeds > matchingTorrents.seeds
             \/ foundTorrents.url = matchingTorrents.url
          THEN foundTorrents
          ELSE matchingTorrents
     ELSE IF foundTorrents # None /\ matchingTorrents = None
     THEN foundTorrents
     ELSE matchingTorrents

\* _updateEpisode: the local is computed and never written to the episode;
\* splice(index, 1, matching) puts `matching` back where it was.
UpdateEpisode(matching, found, s, quality) ==
  [s EXCEPT !.episodes[IndexOf(s.episodes, matching)] = matching]

\* A stored episode without a match that is not pushed.
PushEpisodeDropped(episodes, e) == episodes

\* `return s.episodes.push(e)` for a stored episode without a match.
PushEpisode(episodes, e) == Append(episodes, e)

\* One call of the callback of found.episodes.map.
MergeEpisode(s, e) ==
  LET matching == FindEpisode(s.episodes, e)
      s0 == IF AiredLater(e.first_aired, s.latest_episode)
            THEN [s EXCEPT !.latest_episode = [defined |-> TRUE, at |-> e.first_aired]]
            ELSE s
  IN IF matching = None
     THEN [s0 EXCEPT !.episodes = PushEpisode(s0.episodes, e)]
     ELSE UpdateEpisode(matching, e,
            UpdateEpisode(matching, e,
              UpdateEpisode(matching, e, s0, "480p"), "720p"), "1080p")

RECURSIVE MergeEpisodes(_, _)
MergeEpisodes(s, foundEpisodes) ==
  IF foundEpisodes = <<>> THEN s
  ELSE MergeEpisodes(MergeEpisode(s, Head(foundEpisodes)), Tail(foundEpisodes))

\* num_seasons left as it was saved.
SetNumSeasonsForgotten(saved, distinct) == saved

\* saved.num_seasons = distinct.length
SetNumSeasons(saved, distinct) ==
  [saved EXCEPT !.num_seasons = Cardinality(distinct)]

ShowInit ==
  /\ MovieIdle
  /\ ImageIdle
  /\ FetchIdle
  /\ CycleIdle
  /\ AddIdle
  /\ showDb \in ShowDocs \cup {None}
  /\ showBefore = showDb
  /\ showArg \in ShowDrafts
  /\ show = showArg
  /\ showFound = None
  /\ showSaved = None
  /\ showPc = "findOne"
  /\ showRet = Pending
  /\ showLog = FALSE

\* await this.Model.findOne({ _id: s.imdb_id }); for an existing show the
\* merge of found.episodes runs before the next store call is made.
ShowFindOne ==
  /\ showPc = "findOne"
  /\ showFound' = showDb
  /\ show' = IF showDb = None THEN show ELSE MergeEpisodes(show, showDb.episodes)
  /\ showPc' = IF showDb = None THEN "save" ELSE "update"
  /\ UNCHANGED <<showDb, showArg, showSaved, showRet, showLog, notShow>>

\* const newShow = await new this.Model(s).save()
ShowSave ==
  /\ showPc = "save"
  /\ showDb' = show
  /\ showPc' = "update"
  /\ UNCHANGED <<showArg, show, showFound, showSaved, showRet, showLog, notShow>>

\* _updateNumSeasons: const saved = await findOneAndUpdate(..., show, upsert)
ShowUpdate ==
  /\ showPc = "update"
  /\ showDb' = show
  /\ showSaved' = show
  /\ showPc' = "distinct"
  /\ UNCHANGED <<showArg, show, showFound, showRet, showLog, notShow>>

\* _updateNumSeasons: await Model.distinct('episodes.season', ...).exec()
ShowDistinct ==
  /\ showPc = "distinct"
  /\ showSaved' = SetNumSeasons(showSaved, DistinctSeasons(showDb))
  /\ showPc' = "updateAgain"
  /\ UNCHANGED <<showDb, showArg, show, showFound, showRet, showLog, notShow>>

\* _updateNumSeasons: return findOneAndUpdate(..., saved, upsert)
ShowUpdateAgain ==
  /\ showPc = "updateAgain"
  /\ showDb' = showSaved
  /\ showRet' = showSaved
  /\ showPc' = "done"
  /\ UNCHANGED <<showArg, show, showFound, showSaved, showLog, notShow>>

\* A store call rejects and the rejection reaches the caller.
ShowStoreErrorPropagated ==
  /\ showPc \in {"findOne", "save", "update", "distinct", "updateAgain"}
  /\ showRet' = Rejected
  /\ showPc' = "done"
  /\ UNCHANGED <<showDb, showArg, show, showFound, showSaved, showLog, notShow>>

\* A store call rejects: the catch of _updateEpisodes logs the error and the
\* function returns nothing.
ShowStoreError ==
  /\ showPc \in {"findOne", "save", "update", "distinct", "updateAgain"}
  /\ showLog' = TRUE
  /\ showRet' = None
  /\ showPc' = "done"
  /\ UNCHANGED <<showDb, showArg, show, showFound, showSaved, notShow>>

ShowNext ==
  \/ ShowFindOne \/ ShowSave \/ ShowUpdate \/ ShowDistinct \/ ShowUpdateAgain
  \/ ShowStoreError

SpecShow == ShowInit /\ [][ShowNext]_vars

\* The episodes of a list, and those with the key of e.
Episodes(episodes) == {episodes[i] : i \in 1..Len(episodes)}
EpisodesAt(episodes, e) == {x \in Episodes(episodes) : SameEpisode(x, e)}

\* The merge against a stored show went through to the last write.
ShowMerged == showPc = "done" /\ showFound # None /\ showRet # None

UserFields ==
  {"bookmarked", "bookmarkedOn", "watched", "downloaded", "downloading",
   "downloadedOn"}

\* C7: for a stored and an incoming episode with the same season and
\* episode number, and each quality tier both carry a torrent for, the
\* persisted episode holds the stored torrent when it has strictly more
\* seeds or the same url, and the incoming torrent otherwise.
C7_TierMerge ==
  ShowMerged =>
    \A e \in Episodes(showFound.episodes) :
      \A m \in EpisodesAt(showArg.episodes, e) :
        \A x \in EpisodesAt(showDb.episodes, e) :
          \A q \in ShowQualities :
            (e.torrents[q] # None /\ m.torrents[q] # None) =>
              x.torrents[q] =
                IF \/ e.torrents[q].seeds > m.torrents[q].seeds
                   \/ e.torrents[q].url = m.torrents[q].url
                THEN e.torrents[q]
                ELSE m.torrents[q]

\* C8: once the stored show is found, every stored episode that no incoming
\* episode shares season and episode number with is in the stored document,
\* before and after the merged list is written.
C8_StoredKept ==
  showFound # None =>
    \A e \in Episodes(showFound.episodes) :
      EpisodesAt(showArg.episodes, e) = {} => e \in Episodes(showDb.episodes)

\* A merge wrote its list with a stored episode the incoming show lacks
\* next to incoming episodes.
C8_Witness ==
  /\ ShowMerged
  /\ showArg.episodes # <<>>
  /\ \E e \in Episodes(showFound.episodes) :
       /\ EpisodesAt(showArg.episodes, e) = {}
       /\ e \in Episodes(showDb.episodes)
       /\ e \notin Episodes(showArg.episodes)

\* C9: after a merge or a first save that went through, the stored
\* num_seasons is the number of distinct season values of the stored
\* episodes.
C9_NumSeasons ==
  (showPc = "done" /\ showRet # None) =>
    showDb.num_seasons = Cardinality({e.season : e \in Episodes(showDb.episodes)})

\* A merge ended with two seasons counted, one of them only in the stored
\* episodes and one only in the incoming ones.
C9_Witness ==
  /\ ShowMerged
  /\ showDb.num_seasons = 2
  /\ Cardinality({e.season : e \in Episodes(showArg.episodes)}) = 1
  /\ Cardinality({e.season : e \in Episodes(showFound.episodes)}) = 1
  /\ Len(showDb.episodes) > showDb.num_seasons

\* C10: a write for a movie or a show that is already stored leaves the
\* stored bookmarked, bookmarkedOn, watched, downloaded, downloading and
\* downloadedOn as they were.
C10_UserStateKept ==
  /\ movieFound # None =>
       \A f \in UserFields : movieDb.kept[f] = movieFound.kept[f]
  /\ showFound # None =>
       \A f \in UserFields : showDb.kept[f] = showFound.kept[f]

-----------------------------------------------------------------------------
(* Repeated cycles of the movie torrent merge: _updateTorrents called      *)
(* twice against the same stored array                                     *)

CycleInit ==
  /\ MovieIdle
  /\ ImageIdle
  /\ FetchIdle
  /\ ShowIdle
  /\ AddIdle
  /\ cycleArg \in IncomingLists
  /\ cycleTorrents = cycleArg
  /\ cycleFound \in TorrentLists
  /\ cycleFirst = None
  /\ cycleSecond = None
  /\ cyclePc = "first"

\* m.torrents = this._updateTorrents(m.torrents, found.torrents): the call
\* returns the merged array and leaves the caller's array with what it
\* pushed onto it.
CycleFirstCall ==
  /\ cyclePc = "first"
  /\ cycleFirst' = UpdateTorrents(cycleTorrents, cycleFound)
  /\ cycleTorrents' = UpdateTorrentsRun(cycleTorrents, cycleFound).torrents
  /\ cyclePc' = "second"
  /\ UNCHANGED <<cycleArg, cycleFound, cycleSecond, notCycle>>

\* The next cycle hands in the array as the first call left it.
CycleSecondCall ==
  /\ cyclePc = "second"
  /\ cycleSecond' = UpdateTorrents(cycleTorrents, cycleFound)
  /\ cycleTorrents' = UpdateTorrentsRun(cycleTorrents, cycleFound).torrents
  /\ cyclePc' = "done"
  /\ UNCHANGED <<cycleArg, cycleFound, cycleFirst, notCycle>>

\* The next cycle scraped the same entries into a new array.
CycleSecondCallFresh ==
  /\ cyclePc = "second"
  /\ cycleSecond' = UpdateTorrents(cycleArg, cycleFound)
  /\ cycleTorrents' = UpdateTorrentsRun(cycleArg, cycleFound).torrents
  /\ cyclePc' = "doneFresh"
  /\ UNCHANGED <<cycleArg, cycleFound, cycleFirst, notCycle>>

CycleNext == CycleFirstCall \/ CycleSecondCall \/ CycleSecondCallFresh

SpecCycle == CycleInit /\ [][CycleNext]_vars

\* C11: the movie torrent merge is idempotent over repeated cycles.  The
\* second call, given the incoming array as the first call left it and the
\* same stored array, returns the same set of entries as the first.
C11_Idempotent ==
  cyclePc \in {"done", "doneFresh"} => Entries(cycleSecond) = Entries(cycleFirst)

\* The first call pushed a stored entry onto the caller's array and then
\* replaced another one in a new array; the second call got the array so
\* left and returned more than one entry.
C11_Witness ==
  /\ cyclePc = "done"
  /\ Len(cycleTorrents) > Len(cycleArg)
  /\ cycleFirst # cycleTorrents
  /\ \E e \in Entries(cycleFound) : \E m \in WithKey(cycleArg, e) :
       m.seeds > e.seeds
  /\ Cardinality(Entries(cycleSecond)) > 1

-----------------------------------------------------------------------------
(* The two store writers side by side: a cycle runs the movie upsert or    *)
(* the show episode merge                                                  *)

UpsertInit == MovieInit \/ ShowInit

UpsertNext == MovieNext \/ ShowNext

SpecUpsert == UpsertInit /\ [][UpsertNext]_vars

\* C12: an error during a movie upsert or a show merge is caught and logged
\* and the operation ends with no record.  Neither ends rejected, and each
\* ends without a record exactly when its catch block logged.
C12_ErrorsCaught ==
  /\ moviePc = "done" => (movieRet # Rejected /\ (movieRet = None <=> movieLog))
  /\ showPc = "done" => (showRet # Rejected /\ (showRet = None <=> showLog))

\* The show merge failed after its first write, in the distinct query or
\* in the second write.
C12_Witness ==
  /\ showPc = "done"
  /\ showLog
  /\ showRet = None
  /\ showSaved # None
  /\ showFound # None

-----------------------------------------------------------------------------
(* The replacement step of the movie torrent merge                         *)

\* The loop state of _updateTorrents(torrents, foundTorrents) before its
\* iteration number k + 1.
MergeStateBefore(torrents, foundTorrents, k) ==
  MergeLoop([torrents |-> torrents, newTorrents |-> torrents, aliased |-> TRUE],
            SubSeq(foundTorrents, 1, k))

\* The iteration for `torrent` takes the branch "Remove the lesser one".
Replaces(st, torrent) ==
  /\ FindMatch(st.torrents, torrent) # None
  /\ FindMatch(st.torrents, torrent).seeds > torrent.seeds

\* C13: when an iteration of the movie torrent merge replaces the entry of
\* one (quality, language), every entry the result held before it with
\* another quality or another language is in the result after it.
C13_ConjunctiveRemoval ==
  MovieMerged =>
    \A k \in 0..(Len(movieFound.torrents) - 1) :
      LET st == MergeStateBefore(movieArg.torrents, movieFound.torrents, k)
          torrent == movieFound.torrents[k + 1]
      IN Replaces(st, torrent) =>
           \A x \in Entries(st.newTorrents) :
             ~SameKey(x, torrent) =>
               x \in Entries(MergeStep(st, torrent).newTorrents)

-----------------------------------------------------------------------------
(* The 'currently watching' call of the metadata fetch                     *)

\* C14: when the summary call answers with all required ids and the
\* watching call fails, the fetch still ends with a draft, and the draft's
\* rating.watching is 0.
C14_WatchingDegrades ==
  (/\ fetchPc = "done"
   /\ HasRequiredIds(fetchKind, summaryResp)
   /\ watchingResp.status = "error")
    => (fetchRet \notin {Rejected, None} /\ fetchRet.watching = 0)

-----------------------------------------------------------------------------
(* Season fan-out: ShowHelper.addEpisodes and _addSeason                   *)

\* Most seasons one call of addEpisodes is asked for.
MaxRequested == 3

\* tmdb.seasons.season rejects, answers a season without episodes, or
\* answers a season with episodes.
CatalogAnswers == {"error", "empty", "episodes"}

\* The callback of _addSeason reads `season` in s.episodes.map before the
\* `const season` of the same block is initialised: with an episode to map
\* the read throws (a ReferenceError, or a TypeError on episodes[undefined]
\* where const is compiled to var), and only a season without episodes gets
\* as far as show.seasons.push.
CallbackCompletes(answer) == answer = "empty"

AddInit ==
  /\ MovieIdle
  /\ ImageIdle
  /\ FetchIdle
  /\ ShowIdle
  /\ CycleIdle
  /\ addKeys \in SUBSET (1..MaxRequested)
  /\ addCatalog \in [addKeys -> CatalogAnswers]
  /\ addState = [k \in addKeys |-> "waiting"]
  /\ addSeasons = <<>>
  /\ addLogged = {}
  /\ addMerges = 0
  /\ addPc = "pMap"

\* pMap(Object.keys(episodes), mapper) with no concurrency option: the
\* mapper is called for every key before any of the fetches answers.
AddEpisodesFanOut ==
  /\ addPc = "pMap"
  /\ addState' = [k \in addKeys |-> "inflight"]
  /\ addPc' = "fanout"
  /\ UNCHANGED <<addKeys, addCatalog, addSeasons, addLogged, addMerges, notAdd>>

\* The fetch of season k answers and the callback pushes the season.
AddSeasonPushed(k) ==
  /\ addPc = "fanout"
  /\ addState[k] = "inflight"
  /\ addCatalog[k] # "error"
  /\ CallbackCompletes(addCatalog[k])
  /\ addSeasons' = Append(addSeasons, k)
  /\ addState' = [addState EXCEPT ![k] = "settled"]
  /\ UNCHANGED <<addKeys, addCatalog, addLogged, addMerges, addPc, notAdd>>

\* The fetch of season k answers and the callback throws: the catch of
\* _addSeason logs and the promise resolves without a season.
AddSeasonThrown(k) ==
  /\ addPc = "fanout"
  /\ addState[k] = "inflight"
  /\ addCatalog[k] # "error"
  /\ ~CallbackCompletes(addCatalog[k])
  /\ addLogged' = addLogged \cup {k}
  /\ addState' = [addState EXCEPT ![k] = "settled"]
  /\ UNCHANGED <<addKeys, addCatalog, addSeasons, addMerges, addPc, notAdd>>

\* The fetch of season k rejects: the catch of _addSeason logs and the
\* promise resolves without a season.
AddSeasonFailed(k) ==
  /\ addPc = "fanout"
  /\ addState[k] = "inflight"
  /\ addCatalog[k] = "error"
  /\ addLogged' = addLogged \cup {k}
  /\ addState' = [addState EXCEPT ![k] = "settled"]
  /\ UNCHANGED <<addKeys, addCatalog, addSeasons, addMerges, addPc, notAdd>>

\* Every mapper promise resolved, pMap resolves:
\* .then(() => this._updateEpisodes(show)) starts the store lookup.
AddEpisodesMerge ==
  /\ addPc = "fanout"
  /\ \A k \in addKeys : addState[k] = "settled"
  /\ addMerges' = addMerges + 1
  /\ addPc' = "merge"
  /\ UNCHANGED <<addKeys, addCatalog, addState, addSeasons, addLogged, notAdd>>

\* _updateEpisodes resolves, with a show or with nothing, and so does
\* addEpisodes.
AddEpisodesDone ==
  /\ addPc = "merge"
  /\ addPc' = "done"
  /\ UNCHANGED <<addKeys, addCatalog, addState, addSeasons, addLogged,
                 addMerges, notAdd>>

AddNext ==
  \/ AddEpisodesFanOut
  \/ \E k \in addKeys : AddSeasonPushed(k)
  \/ \E k \in addKeys : AddSeasonThrown(k)
  \/ \E k \in addKeys : AddSeasonFailed(k)
  \/ AddEpisodesMerge
  \/ AddEpisodesDone

SpecAdd == AddInit /\ [][AddNext]_vars

InFlight == {k \in addKeys : addState[k] = "inflight"}

\* The merge starts once, and not before every season fetch has settled.
MergeAfterFanOut ==
  /\ addMerges <= 1
  /\ addMerges = 1 => InFlight = {}
  /\ addPc \in {"merge", "done"} <=> addMerges = 1

\* A season whose fetch failed is logged and not in show.seasons.
FailedSkipped ==
  \A k \in addKeys :
    (addState[k] = "settled" /\ addCatalog[k] = "error") =>
      (k \in addLogged /\ k \notin Entries(addSeasons))

\* When the merge starts, every season whose fetch answered is in
\* show.seasons.
OthersAssembled ==
  addMerges = 1 =>
    \A k \in addKeys : addCatalog[k] # "error" => k \in Entries(addSeasons)

\* C15: in addEpisodes, whatever seasons are requested and whichever of
\* their fetches fail, the episode merge starts exactly once and only after
\* every season fetch has settled; a failed fetch is logged and skipped,
\* and the other seasons are assembled.
C15_MergeAfterSeasons == MergeAfterFanOut /\ FailedSkipped /\ OthersAssembled

\* A limit on the fetches in flight that is below the number of seasons a
\* call can be asked for.
WorkerLimit == MaxRequested - 1

\* C16: during the fan-out of addEpisodes the number of season fetches in
\* flight at the same time stays within a fixed worker limit, however many
\* seasons are requested.
C16_BoundedFanOut == Cardinality(InFlight) <= WorkerLimit

-----------------------------------------------------------------------------
(* A show merge that fails part-way                                        *)

\* C17: when a show merge ends without a record because a store call
\* failed, the stored document is the one the cycle began with.
C17_FailedMergeCommitsNothing ==
  (showPc = "done" /\ showRet = None) => showDb = showBefore

====
